---------------------------- MODULE Spec2Model ----------------------------
(***************************************************************************)
(* A model of backtracker/search.py: parallelized_search (one coordinator  *)
(* process and dynamically spawned one-shot worker processes that share    *)
(* two queues and two lock-guarded counters), iterative_search (explicit   *)
(* backlog, footprints, depth and solution ceilings) and recursive_search. *)
(*                                                                         *)
(* A Backtrackable state is a name; the state graph (next(), is_solution(),*)
(* and the states whose next() raises) is an input drawn from Graphs.      *)
(* multiprocessing.Queue is modelled as an atomic FIFO sequence.           *)
(***************************************************************************)
EXTENDS Integers, Sequences, FiniteSets, TLC

\* ------------------------------------------------------------------ bounds

\* Number of worker process slots: how many workers can be alive at once.
MaxWorkers == 2

\* max_depth ranges over None and 0..MaxDepth, n_sols over None and 0..MaxSols.
MaxDepth == 2
MaxSols == 2

\* ------------------------------------------------------------------ inputs

States == {"A", "B", "C", "D"}

\* A value that is not a Backtrackable: it has no next() and no is_solution().
NotBacktrackable == "X"

Values == States \cup {NotBacktrackable}

\* The default of the max_worker_count parameter.
DefaultMaxWorkerCount == 1

\* The scenario graph: A -> {B, C}, B -> {D}; C and D are solutions.
ScenarioGraph ==
    [next |-> [s \in States |-> CASE s = "A" -> <<"B", "C">>
                                  [] s = "B" -> <<"D">>
                                  [] OTHER -> << >>],
     sol |-> {"C", "D"}, raises |-> {}]

\* A diamond: D is reachable via B and via C; no state is a solution.
DiamondGraph ==
    [next |-> [s \in States |-> CASE s = "A" -> <<"B", "C">>
                                  [] s = "B" -> <<"D">>
                                  [] s = "C" -> <<"D">>
                                  [] OTHER -> << >>],
     sol |-> {}, raises |-> {}]

\* A solution (C) reachable via two paths, with a solution (D) below it.
SolutionDiamondGraph ==
    [next |-> [s \in States |-> CASE s = "A" -> <<"C", "B">>
                                  [] s = "B" -> <<"C">>
                                  [] s = "C" -> <<"D">>
                                  [] OTHER -> << >>],
     sol |-> {"C", "D"}, raises |-> {}]

\* A cycle A -> B -> A and a self-loop on B; C is a solution.
CycleGraph ==
    [next |-> [s \in States |-> CASE s = "A" -> <<"B">>
                                  [] s = "B" -> <<"B", "A", "C">>
                                  [] OTHER -> << >>],
     sol |-> {"C"}, raises |-> {}]

\* The scenario graph where B.next() raises.
RaisingGraph ==
    [next |-> ScenarioGraph.next, sol |-> ScenarioGraph.sol, raises |-> {"B"}]

Graphs == {ScenarioGraph, DiamondGraph, SolutionDiamondGraph, CycleGraph,
           RaisingGraph}

\* The lists of initial states a search is called with.
InitialStates == {<<"A">>, <<"C", "B">>, <<"D", "D">>}

\* The same, and lists that hold a value that is not a Backtrackable.
AnyInitialStates ==
    InitialStates \cup {<<NotBacktrackable>>, <<"A", NotBacktrackable>>}

\* An optional integer argument: << >> is None, <<n>> is n.
None == << >>
Optional(n) == {None} \cup {<<i>> : i \in 0..n}

\* Python truthiness of an optional integer: None and 0 are falsy.
Truthy(opt) == opt # None /\ opt[1] # 0

Node(depth, state) == [depth |-> depth, state |-> state]

NoNode == Node(0, "None")

Range(seq) == {seq[i] : i \in 1..Len(seq)}

\* ------------------------------------------------------------------ state

VARIABLES
    graph,              \* the state graph the Backtrackable states live in
    states,             \* the list of initial states
    max_worker_count,   \* parallelized_search parameter
    dfs, max_depth, n_sols,  \* iterative_search parameters
    backlog,            \* the backlog queue / list of Nodes
    results,            \* the results queue of Nodes
    footprints,         \* the footprinted states
    solutions,          \* the solution set
    wsize, wlock,       \* active worker counter and the holders of its lock
    qsize, qlock,       \* backlog counter and the holders of its lock
    cpc,                \* position of the coordinator (parallelized_search)
    seeded,             \* number of initial states already seeded
    result,             \* the coordinator's harvested Node
    wpc,                \* position of each worker process
    wcurrent,           \* each worker's current Node
    wnext,              \* each worker's successors not yet put on results
    ipc,                \* position of iterative_search
    current,            \* iterative_search's popped Node
    pending,            \* successors of current not yet looked at
    expanded,           \* per state: number of next() invocations
    enqueued,           \* per state: number of puts on the backlog
    wdecs               \* per worker process: its decrements of wsize

inputs == <<graph, states, max_worker_count, dfs, max_depth, n_sols>>
shared == <<backlog, footprints, solutions, expanded, enqueued>>
parvars == <<results, wsize, wlock, qsize, qlock, cpc, seeded, result,
             wpc, wcurrent, wnext, wdecs>>
itervars == <<ipc, current, pending>>
vars == <<inputs, shared, parvars, itervars>>

Coordinator == 0
Workers == 1..MaxWorkers

Bump(f, s) == [f EXCEPT ![s] = @ + 1]


\* ------------------------------------------------- parallelized_search

\* state.next() raises: the graph says so, or state has no such method.
Raises(state) == state \notin States \/ state \in graph.raises

\* The state after lines 42-52, called with one of the lists: empty queues,
\* zero counters, free locks.
ParInitFrom(lists) ==
    /\ graph \in Graphs
    /\ states \in lists
    /\ max_worker_count = DefaultMaxWorkerCount
    /\ dfs = TRUE /\ max_depth = None /\ n_sols = None
    /\ backlog = << >> /\ results = << >>
    /\ footprints = {} /\ solutions = {}
    /\ wsize = 0 /\ wlock = {} /\ qsize = 0 /\ qlock = {}
    /\ cpc = "seed" /\ seeded = 0 /\ result = NoNode
    /\ wpc = [w \in Workers |-> "idle"]
    /\ wcurrent = [w \in Workers |-> NoNode]
    /\ wnext = [w \in Workers |-> << >>]
    /\ wdecs = [w \in Workers |-> 0]
    /\ ipc = "off" /\ current = NoNode /\ pending = << >>
    /\ expanded = [s \in Values |-> 0]
    /\ enqueued = [s \in Values |-> 0]

\* parallelized_search called with valid initial states
ParInit == ParInitFrom(InitialStates)

\* parallelized_search called with any list of initial values: lines 42-62
\* do not test them
AnyInputInit == ParInitFrom(AnyInitialStates)

\* --- worker process (lines 14-40)

\* qlock.acquire()
WAcquireQ(w) ==
    /\ wpc[w] = "acq_q" /\ qlock = {}
    /\ qlock' = {w}
    /\ wpc' = [wpc EXCEPT ![w] = "get"]
    /\ UNCHANGED <<inputs, shared, results, wsize, wlock, qsize, cpc, seeded,
                   result, wcurrent, wnext, wdecs, itervars>>

\* A worker that decrements qsize although its dequeue timed out.
WGet_TimeoutDecrements(w) ==
    /\ wpc[w] = "get"
    /\ IF backlog # << >>
       THEN /\ wcurrent' = [wcurrent EXCEPT ![w] = Head(backlog)]
            /\ backlog' = Tail(backlog)
       ELSE UNCHANGED <<wcurrent, backlog>>
    /\ wpc' = [wpc EXCEPT ![w] = "dec_q"]
    /\ UNCHANGED <<inputs, footprints, solutions, expanded, enqueued, results,
                   wsize, wlock, qsize, qlock, cpc, seeded, result, wnext,
                   wdecs, itervars>>

\* current = backlog.get(timeout=1): an item, or the timeout that the bare
\* except swallows (the backlog cannot be refilled while w holds qlock).
WGet(w) ==
    /\ wpc[w] = "get"
    /\ IF backlog # << >>
       THEN /\ wcurrent' = [wcurrent EXCEPT ![w] = Head(backlog)]
            /\ backlog' = Tail(backlog)
            /\ wpc' = [wpc EXCEPT ![w] = "dec_q"]
       ELSE /\ wpc' = [wpc EXCEPT ![w] = "rel_q"]
            /\ UNCHANGED <<wcurrent, backlog>>
    /\ UNCHANGED <<inputs, footprints, solutions, expanded, enqueued, results,
                   wsize, wlock, qsize, qlock, cpc, seeded, result, wnext,
                   wdecs, itervars>>

\* A worker that obtained an item and leaves qsize as it was.
WDecQ_Forgotten(w) ==
    /\ wpc[w] = "dec_q"
    /\ wpc' = [wpc EXCEPT ![w] = "rel_q"]
    /\ UNCHANGED <<inputs, shared, results, wsize, wlock, qsize, qlock, cpc,
                   seeded, result, wcurrent, wnext, wdecs, itervars>>

\* qsize.value -= 1
WDecQ(w) ==
    /\ wpc[w] = "dec_q"
    /\ qsize' = qsize - 1
    /\ wpc' = [wpc EXCEPT ![w] = "rel_q"]
    /\ UNCHANGED <<inputs, shared, results, wsize, wlock, qlock, cpc, seeded,
                   result, wcurrent, wnext, wdecs, itervars>>

\* A worker that leaves the try block without releasing qlock.
WReleaseQ_Forgotten(w) ==
    /\ wpc[w] = "rel_q"
    /\ wpc' = [wpc EXCEPT ![w] = IF wcurrent[w] # NoNode THEN "expand"
                                                          ELSE "acq_w"]
    /\ UNCHANGED <<inputs, shared, results, wsize, wlock, qsize, qlock, cpc,
                   seeded, result, wcurrent, wnext, wdecs, itervars>>

\* finally: qlock.release(); then `if current:`
WReleaseQ(w) ==
    /\ wpc[w] = "rel_q"
    /\ qlock' = {}
    /\ wpc' = [wpc EXCEPT ![w] = IF wcurrent[w] # NoNode THEN "expand"
                                                          ELSE "acq_w"]
    /\ UNCHANGED <<inputs, shared, results, wsize, wlock, qsize, cpc, seeded,
                   result, wcurrent, wnext, wdecs, itervars>>

\* current.state.next() returns the successors
WExpand(w) ==
    /\ wpc[w] = "expand"
    /\ ~Raises(wcurrent[w].state)
    /\ wnext' = [wnext EXCEPT ![w] = graph.next[wcurrent[w].state]]
    /\ expanded' = Bump(expanded, wcurrent[w].state)
    /\ wpc' = [wpc EXCEPT ![w] =
                 IF graph.next[wcurrent[w].state] = << >> THEN "acq_w"
                                                          ELSE "put"]
    /\ UNCHANGED <<inputs, backlog, footprints, solutions, enqueued, results,
                   wsize, wlock, qsize, qlock, cpc, seeded, result, wcurrent,
                   wdecs, itervars>>

\* current.state.next() raises: nothing catches it, the process dies here
\* (its locals die with it).
WCrash(w) ==
    /\ wpc[w] = "expand"
    /\ Raises(wcurrent[w].state)
    /\ expanded' = Bump(expanded, wcurrent[w].state)
    /\ wpc' = [wpc EXCEPT ![w] = "idle"]
    /\ wcurrent' = [wcurrent EXCEPT ![w] = NoNode]
    /\ UNCHANGED <<inputs, backlog, footprints, solutions, enqueued, results,
                   wsize, wlock, qsize, qlock, cpc, seeded, result, wnext,
                   wdecs, itervars>>

\* results.put(Node(current.depth+1, next)) for one successor
WPut(w) ==
    /\ wpc[w] = "put"
    /\ results' = Append(results, Node(wcurrent[w].depth + 1, Head(wnext[w])))
    /\ wnext' = [wnext EXCEPT ![w] = Tail(wnext[w])]
    /\ wpc' = [wpc EXCEPT ![w] = IF Tail(wnext[w]) = << >> THEN "acq_w"
                                                            ELSE "put"]
    /\ UNCHANGED <<inputs, shared, wsize, wlock, qsize, qlock, cpc, seeded,
                   result, wcurrent, wdecs, itervars>>

\* A worker that goes on to its decrement without taking wlock.
WAcquireW_NoLock(w) ==
    /\ wpc[w] = "acq_w"
    /\ wpc' = [wpc EXCEPT ![w] = "dec_w"]
    /\ UNCHANGED <<inputs, shared, results, wsize, wlock, qsize, qlock, cpc,
                   seeded, result, wcurrent, wnext, wdecs, itervars>>

\* wlock.acquire()
WAcquireW(w) ==
    /\ wpc[w] = "acq_w" /\ wlock = {}
    /\ wlock' = {w}
    /\ wpc' = [wpc EXCEPT ![w] = "dec_w"]
    /\ UNCHANGED <<inputs, shared, results, wsize, qsize, qlock, cpc, seeded,
                   result, wcurrent, wnext, wdecs, itervars>>

\* A worker that releases wlock without having decremented wsize.
WDecW_Forgotten(w) ==
    /\ wpc[w] = "dec_w"
    /\ wpc' = [wpc EXCEPT ![w] = "rel_w"]
    /\ UNCHANGED <<inputs, shared, results, wsize, wlock, qsize, qlock, cpc,
                   seeded, result, wcurrent, wnext, wdecs, itervars>>

\* wsize.value -= 1
WDecW(w) ==
    /\ wpc[w] = "dec_w"
    /\ wsize' = wsize - 1
    /\ wdecs' = [wdecs EXCEPT ![w] = @ + 1]
    /\ wpc' = [wpc EXCEPT ![w] = "rel_w"]
    /\ UNCHANGED <<inputs, shared, results, wlock, qsize, qlock, cpc, seeded,
                   result, wcurrent, wnext, itervars>>

\* finally: wlock.release(); the worker function returns and the process
\* exits (its locals die with it)
WReleaseW(w) ==
    /\ wpc[w] = "rel_w"
    /\ wlock' = {}
    /\ wpc' = [wpc EXCEPT ![w] = "idle"]
    /\ wcurrent' = [wcurrent EXCEPT ![w] = NoNode]
    /\ UNCHANGED <<inputs, shared, results, wsize, qsize, qlock, cpc, seeded,
                   result, wnext, wdecs, itervars>>

worker(w) ==
    \/ WAcquireQ(w) \/ WGet(w) \/ WDecQ(w) \/ WReleaseQ(w)
    \/ WExpand(w) \/ WCrash(w) \/ WPut(w)
    \/ WAcquireW(w) \/ WDecW(w) \/ WReleaseW(w)


\* --- coordinator (lines 54-95)

\* for s in states: qlock.acquire(); after the last state, the while loop
SeedAcquire ==
    /\ cpc = "seed"
    /\ IF seeded < Len(states)
       THEN qlock = {} /\ qlock' = {Coordinator} /\ cpc' = "seed_put"
       ELSE cpc' = "while_q" /\ UNCHANGED qlock
    /\ UNCHANGED <<inputs, shared, results, wsize, wlock, qsize, seeded,
                   result, wpc, wcurrent, wnext, wdecs, itervars>>

\* backlog.put(Node(0, s))
SeedPut ==
    /\ cpc = "seed_put"
    /\ backlog' = Append(backlog, Node(0, states[seeded + 1]))
    /\ enqueued' = Bump(enqueued, states[seeded + 1])
    /\ cpc' = "seed_inc"
    /\ UNCHANGED <<inputs, footprints, solutions, expanded, results, wsize,
                   wlock, qsize, qlock, seeded, result, wpc, wcurrent, wnext,
                   wdecs, itervars>>

\* qsize.value += 1
SeedInc ==
    /\ cpc = "seed_inc"
    /\ qsize' = qsize + 1
    /\ cpc' = "seed_mark"
    /\ UNCHANGED <<inputs, shared, results, wsize, wlock, qlock, seeded,
                   result, wpc, wcurrent, wnext, wdecs, itervars>>

\* footprints[s] = True
SeedMark ==
    /\ cpc = "seed_mark"
    /\ footprints' = footprints \cup {states[seeded + 1]}
    /\ cpc' = "seed_rel"
    /\ UNCHANGED <<inputs, backlog, solutions, expanded, enqueued, results,
                   wsize, wlock, qsize, qlock, seeded, result, wpc, wcurrent,
                   wnext, wdecs, itervars>>

\* finally: qlock.release(); next s
SeedRelease ==
    /\ cpc = "seed_rel"
    /\ qlock' = {}
    /\ seeded' = seeded + 1
    /\ cpc' = "seed"
    /\ UNCHANGED <<inputs, shared, results, wsize, wlock, qsize, result, wpc,
                   wcurrent, wnext, wdecs, itervars>>

\* while qsize.value > 0 or ...: the first operand, read on its own
WhileQ ==
    /\ cpc = "while_q"
    /\ cpc' = IF qsize > 0 THEN "if_backlog" ELSE "while_w"
    /\ UNCHANGED <<inputs, shared, results, wsize, wlock, qsize, qlock,
                   seeded, result, wpc, wcurrent, wnext, wdecs, itervars>>

\* ... or wsize.value > 0: read after qsize was read as 0; else return
WhileW ==
    /\ cpc = "while_w"
    /\ cpc' = IF wsize > 0 THEN "if_backlog" ELSE "done"
    /\ UNCHANGED <<inputs, shared, results, wsize, wlock, qsize, qlock,
                   seeded, result, wpc, wcurrent, wnext, wdecs, itervars>>

\* if not backlog.empty():
IfBacklog ==
    /\ cpc = "if_backlog"
    /\ cpc' = IF backlog # << >> THEN "spawn_acq" ELSE "harvest"
    /\ UNCHANGED <<inputs, shared, results, wsize, wlock, qsize, qlock,
                   seeded, result, wpc, wcurrent, wnext, wdecs, itervars>>

\* A coordinator that starts a worker without taking wlock first.
SpawnAcquire_NoLock ==
    /\ cpc = "spawn_acq"
    /\ \E w \in Workers : wpc[w] = "idle"
    /\ cpc' = "spawn_start"
    /\ UNCHANGED <<inputs, shared, results, wsize, wlock, qsize, qlock,
                   seeded, result, wpc, wcurrent, wnext, wdecs, itervars>>

\* wlock.acquire(); max_worker_count is not consulted.  The coordinator
\* waits here while every process slot of the model is taken.
SpawnAcquire ==
    /\ cpc = "spawn_acq" /\ wlock = {}
    /\ \E w \in Workers : wpc[w] = "idle"
    /\ wlock' = {Coordinator}
    /\ cpc' = "spawn_start"
    /\ UNCHANGED <<inputs, shared, results, wsize, qsize, qlock, seeded,
                   result, wpc, wcurrent, wnext, wdecs, itervars>>

\* mp.Process(target=worker, ...).start(): the new process is at line 22
SpawnStart ==
    /\ cpc = "spawn_start"
    /\ LET w == CHOOSE x \in Workers :
                  /\ wpc[x] = "idle"
                  /\ \A y \in Workers : wpc[y] = "idle" => x <= y
       IN /\ wpc' = [wpc EXCEPT ![w] = "acq_q"]
          /\ wcurrent' = [wcurrent EXCEPT ![w] = NoNode]
          /\ wdecs' = [wdecs EXCEPT ![w] = 0]
    /\ cpc' = "spawn_inc"
    /\ UNCHANGED <<inputs, shared, results, wsize, wlock, qsize, qlock,
                   seeded, result, wnext, itervars>>

\* wsize.value += 1
SpawnInc ==
    /\ cpc = "spawn_inc"
    /\ wsize' = wsize + 1
    /\ cpc' = "spawn_rel"
    /\ UNCHANGED <<inputs, shared, results, wlock, qsize, qlock, seeded,
                   result, wpc, wcurrent, wnext, wdecs, itervars>>

\* finally: wlock.release()
SpawnRelease ==
    /\ cpc = "spawn_rel"
    /\ wlock' = {}
    /\ cpc' = "harvest"
    /\ UNCHANGED <<inputs, shared, results, wsize, qsize, qlock, seeded,
                   result, wpc, wcurrent, wnext, wdecs, itervars>>

\* while not results.empty(): ...; after the loop, print and loop again
HarvestCheck ==
    /\ cpc = "harvest"
    /\ cpc' = IF results # << >> THEN "harvest_get" ELSE "while_q"
    /\ UNCHANGED <<inputs, shared, results, wsize, wlock, qsize, qlock,
                   seeded, result, wpc, wcurrent, wnext, wdecs, itervars>>

\* A harvest that adds every result outside the footprints to the solutions,
\* without asking is_solution.
HarvestGet_Unfiltered ==
    /\ cpc = "harvest_get"
    /\ result' = Head(results)
    /\ results' = Tail(results)
    /\ IF Head(results).state \in footprints
       THEN cpc' = "harvest" /\ UNCHANGED solutions
       ELSE /\ solutions' = solutions \cup {Head(results).state}
            /\ cpc' = "harvest"
    /\ UNCHANGED <<inputs, backlog, footprints, expanded, enqueued, wsize,
                   wlock, qsize, qlock, seeded, wpc, wcurrent, wnext, wdecs,
                   itervars>>

\* result = results.get(), then the classification of lines 81-85
HarvestGet ==
    /\ cpc = "harvest_get"
    /\ result' = Head(results)
    /\ results' = Tail(results)
    /\ IF Head(results).state \in footprints
       THEN cpc' = "harvest" /\ UNCHANGED solutions
       ELSE IF Head(results).state \in graph.sol
            THEN /\ solutions' = solutions \cup {Head(results).state}
                 /\ cpc' = "harvest"
            ELSE cpc' = "harvest_acq" /\ UNCHANGED solutions
    /\ UNCHANGED <<inputs, backlog, footprints, expanded, enqueued, wsize,
                   wlock, qsize, qlock, seeded, wpc, wcurrent, wnext, wdecs,
                   itervars>>

\* qlock.acquire()
HarvestAcquire ==
    /\ cpc = "harvest_acq" /\ qlock = {}
    /\ qlock' = {Coordinator}
    /\ cpc' = "harvest_put"
    /\ UNCHANGED <<inputs, shared, results, wsize, wlock, qsize, seeded,
                   result, wpc, wcurrent, wnext, wdecs, itervars>>

\* backlog.put(result)
HarvestPut ==
    /\ cpc = "harvest_put"
    /\ backlog' = Append(backlog, result)
    /\ enqueued' = Bump(enqueued, result.state)
    /\ cpc' = "harvest_inc"
    /\ UNCHANGED <<inputs, footprints, solutions, expanded, results, wsize,
                   wlock, qsize, qlock, seeded, result, wpc, wcurrent, wnext,
                   wdecs, itervars>>

\* qsize.value += 1
HarvestInc ==
    /\ cpc = "harvest_inc"
    /\ qsize' = qsize + 1
    /\ cpc' = "harvest_mark"
    /\ UNCHANGED <<inputs, shared, results, wsize, wlock, qlock, seeded,
                   result, wpc, wcurrent, wnext, wdecs, itervars>>

\* A harvest that enqueues the state without footprinting it.
HarvestMark_Skipped ==
    /\ cpc = "harvest_mark"
    /\ cpc' = "harvest_rel"
    /\ UNCHANGED <<inputs, shared, results, wsize, wlock, qsize, qlock,
                   seeded, result, wpc, wcurrent, wnext, wdecs, itervars>>

\* footprints[result.state] = True
HarvestMark ==
    /\ cpc = "harvest_mark"
    /\ footprints' = footprints \cup {result.state}
    /\ cpc' = "harvest_rel"
    /\ UNCHANGED <<inputs, backlog, solutions, expanded, enqueued, results,
                   wsize, wlock, qsize, qlock, seeded, result, wpc, wcurrent,
                   wnext, wdecs, itervars>>

\* finally: qlock.release(); back to the harvest loop
HarvestRelease ==
    /\ cpc = "harvest_rel"
    /\ qlock' = {}
    /\ cpc' = "harvest"
    /\ UNCHANGED <<inputs, shared, results, wsize, wlock, qsize, seeded,
                   result, wpc, wcurrent, wnext, wdecs, itervars>>

coordinator ==
    \/ SeedAcquire \/ SeedPut \/ SeedInc \/ SeedMark \/ SeedRelease
    \/ WhileQ \/ WhileW \/ IfBacklog
    \/ SpawnAcquire \/ SpawnStart \/ SpawnInc \/ SpawnRelease
    \/ HarvestCheck \/ HarvestGet
    \/ HarvestAcquire \/ HarvestPut \/ HarvestInc \/ HarvestMark
    \/ HarvestRelease

Next == coordinator \/ \E w \in Workers : worker(w)

Spec == ParInit /\ [][Next]_vars

AnyInputSpec == AnyInputInit /\ [][Next]_vars

\* Every process that can take a step is eventually scheduled.
Fairness ==
    /\ WF_vars(coordinator)
    /\ \A w \in Workers : WF_vars(worker(w))

FairSpec == ParInit /\ [][Next]_vars /\ Fairness

\* ---------------------------------------------------- iterative_search

\* A depth test that is off by one: a node at max_depth is still expanded.
TooDeep_OffByOne(node, depth) == Truthy(depth) /\ node.depth > depth[1]

\* too_deep of lines 134-139: `if max_depth:` then current.depth >= max_depth
TooDeep(node, depth) == Truthy(depth) /\ node.depth >= depth[1]

\* A ceiling test that is off by one: the search returns one solution late.
EarlyTerm_OffByOne(sols, k) == Truthy(k) /\ Cardinality(sols) > k[1]

\* early_term of lines 152-154: `if n_sols:` then len(solutions) >= n_sols
EarlyTerm(sols, k) == Truthy(k) /\ Cardinality(sols) >= k[1]

\* An enqueue that appends at the popping end in both modes.
Push_AlwaysAppend(bl, node, useDfs) == Append(bl, node)

\* backlog.append(node) for DFS, backlog.insert(0, node) for BFS
Push(bl, node, useDfs) == IF useDfs THEN Append(bl, node) ELSE <<node>> \o bl

\* The body of the for loop (lines 147-167) for one successor nxt of cur:
\* the backlog and the solutions after it, and whether the search returned.
ForBody(bl, sols, fps, cur, nxt, useDfs, k) ==
    IF nxt \in graph.sol /\ nxt \notin sols
    THEN [backlog |-> bl, solutions |-> sols \cup {nxt},
          returned |-> EarlyTerm(sols \cup {nxt}, k)]
    ELSE IF nxt \notin fps
         THEN [backlog |-> Push(bl, Node(cur.depth + 1, nxt), useDfs),
               solutions |-> sols, returned |-> FALSE]
         ELSE [backlog |-> bl, solutions |-> sols, returned |-> FALSE]

\* backlog = [Node(0, s) for s in states] (lines 121-125)
SeedBacklog(inits) == [i \in 1..Len(inits) |-> Node(0, inits[i])]

\* The state after lines 117-128.
IterInit ==
    /\ graph \in Graphs
    /\ states \in InitialStates
    /\ max_worker_count = DefaultMaxWorkerCount
    /\ dfs \in BOOLEAN
    /\ max_depth \in Optional(MaxDepth)
    /\ n_sols \in Optional(MaxSols)
    /\ backlog = SeedBacklog(states) /\ results = << >>
    /\ footprints = {} /\ solutions = {}
    /\ wsize = 0 /\ wlock = {} /\ qsize = 0 /\ qlock = {}
    /\ cpc = "off" /\ seeded = 0 /\ result = NoNode
    /\ wpc = [w \in Workers |-> "idle"]
    /\ wcurrent = [w \in Workers |-> NoNode]
    /\ wnext = [w \in Workers |-> << >>]
    /\ wdecs = [w \in Workers |-> 0]
    /\ ipc = "while" /\ current = NoNode /\ pending = << >>
    /\ expanded = [s \in Values |-> 0]
    /\ enqueued = [s \in Values |-> 0]

\* while len(backlog) > 0: current = backlog.pop(); too_deep (lines 130-141)
IterPop ==
    /\ ipc = "while" /\ backlog # << >>
    /\ current' = backlog[Len(backlog)]
    /\ backlog' = SubSeq(backlog, 1, Len(backlog) - 1)
    /\ ipc' = IF TooDeep(backlog[Len(backlog)], max_depth) THEN "while"
                                                           ELSE "call"
    /\ UNCHANGED <<inputs, footprints, solutions, expanded, enqueued, parvars,
                   pending>>

\* current.state.next() returns the successors (line 146)
IterExpand ==
    /\ ipc = "call" /\ ~Raises(current.state)
    /\ pending' = graph.next[current.state]
    /\ expanded' = Bump(expanded, current.state)
    /\ ipc' = "for"
    /\ UNCHANGED <<inputs, backlog, footprints, solutions, enqueued, parvars,
                   current>>

\* current.state.next() raises: the exception leaves iterative_search
IterRaise ==
    /\ ipc = "call" /\ Raises(current.state)
    /\ expanded' = Bump(expanded, current.state)
    /\ ipc' = "raised"
    /\ UNCHANGED <<inputs, backlog, footprints, solutions, enqueued, parvars,
                   current, pending>>

\* one iteration of `for next in current.state.next()` (lines 146-167)
IterFor ==
    /\ ipc = "for" /\ pending # << >>
    /\ LET r == ForBody(backlog, solutions, footprints, current, Head(pending),
                        dfs, n_sols)
       IN /\ backlog' = r.backlog
          /\ solutions' = r.solutions
          /\ ipc' = IF r.returned THEN "done" ELSE "for"
    /\ pending' = Tail(pending)
    /\ UNCHANGED <<inputs, footprints, expanded, enqueued, parvars, current>>

\* footprints[current.state] = True, after the for loop (line 168)
IterMark ==
    /\ ipc = "for" /\ pending = << >>
    /\ footprints' = footprints \cup {current.state}
    /\ ipc' = "while"
    /\ UNCHANGED <<inputs, backlog, solutions, expanded, enqueued, parvars,
                   current, pending>>

\* A while loop that does not end on the empty backlog.
IterReturn_Spins ==
    /\ ipc = "while" /\ backlog = << >>
    /\ ipc' = "while"
    /\ UNCHANGED <<inputs, shared, parvars, current, pending>>

\* the backlog is empty: return solutions (line 170)
IterReturn ==
    /\ ipc = "while" /\ backlog = << >>
    /\ ipc' = "done"
    /\ UNCHANGED <<inputs, shared, parvars, current, pending>>

IterNext ==
    \/ IterPop \/ IterExpand \/ IterRaise \/ IterFor \/ IterMark
    \/ IterReturn

IterSpec == IterInit /\ [][IterNext]_vars

\* iterative_search has returned (line 156 or line 170)
IterDone == ipc = "done"

\* The for loop of lines 146-167 over the successors succ of cur, run to its
\* end or to the early return.
RECURSIVE ForLoop(_, _, _, _, _, _, _)
ForLoop(bl, sols, fps, cur, succ, useDfs, k) ==
    IF succ = << >>
    THEN [backlog |-> bl, solutions |-> sols, returned |-> FALSE]
    ELSE LET r == ForBody(bl, sols, fps, cur, Head(succ), useDfs, k)
         IN IF r.returned THEN r
            ELSE ForLoop(r.backlog, r.solutions, fps, cur, Tail(succ),
                         useDfs, k)

\* The while loop of lines 130-170 run to its return, for states whose
\* next() returns: the solution set returned.
RECURSIVE WhileLoop(_, _, _, _, _, _)
WhileLoop(bl, sols, fps, useDfs, depth, k) ==
    IF bl = << >> THEN sols
    ELSE LET cur == bl[Len(bl)]
             rest == SubSeq(bl, 1, Len(bl) - 1)
         IN IF TooDeep(cur, depth)
            THEN WhileLoop(rest, sols, fps, useDfs, depth, k)
            ELSE LET r == ForLoop(rest, sols, fps, cur,
                                  graph.next[cur.state], useDfs, k)
                 IN IF r.returned THEN r.solutions
                    ELSE WhileLoop(r.backlog, r.solutions,
                                   fps \cup {cur.state}, useDfs, depth, k)

\* iterative_search(states, dfs, max_depth, n_sols) as a function of its
\* arguments
iterative_search(inits, useDfs, depth, k) ==
    WhileLoop(SeedBacklog(inits), {}, {}, useDfs, depth, k)

\* ---------------------------------------------------- recursive_search

\* recursive_search(state), lines 181-188 (defined on cycle-free graphs)
RECURSIVE recursive_search(_)
recursive_search(state) ==
    IF state \in graph.sol THEN {state}
    ELSE UNION {recursive_search(n) : n \in Range(graph.next[state])}

\* ------------------------------------------------- graph-theoretic notions

Successors(S) == UNION {Range(graph.next[s]) : s \in S}

\* The states at the end of a path of exactly n >= 0 steps from a state of S.
RECURSIVE AtSteps(_, _)
AtSteps(S, n) == IF n = 0 THEN S ELSE Successors(AtSteps(S, n - 1))

\* The states reachable from S by a path of 1..n steps.
WithinSteps(S, n) == UNION {AtSteps(S, i) : i \in 1..n}

\* No state lies on a cycle.
CycleFree == \A s \in States : s \notin WithinSteps({s}, Cardinality(States))

\* No state occurs twice in the list.
Distinct(seq) == \A i, j \in 1..Len(seq) : seq[i] = seq[j] => i = j

\* parallelized_search has returned (line 95)
ParDone == cpc = "done"

\* ------------------------------------------------------------- claims

\* C1: when the coordinator loop of parallelized_search exits, the system is
\* quiescent: the backlog queue is empty, no worker is still to decrement
\* wsize, and the results queue holds no node the coordinator has not
\* classified.
C1_QuiescentAtExit ==
    ParDone =>
        /\ backlog = << >>
        /\ \A w \in Workers : wpc[w] \in {"idle", "rel_w"}
        /\ results = << >>

\* C2: on a cycle-free graph (whose next() never raises) and a single
\* initial state, parallelized_search, iterative_search in DFS and in BFS
\* mode without ceilings, and recursive_search return the same set.
C2_StrategiesAgree ==
    (ParDone /\ CycleFree /\ graph.raises = {} /\ Len(states) = 1) =>
        /\ solutions = recursive_search(states[1])
        /\ iterative_search(states, TRUE, None, None)
             = recursive_search(states[1])
        /\ iterative_search(states, FALSE, None, None)
             = recursive_search(states[1])

\* C3: on a finite graph whose next() never raises, under fair scheduling of
\* the coordinator and the workers, parallelized_search eventually returns.
C3_ParallelTerminates == (graph.raises = {}) => <>ParDone

\* C3 witness: the search has returned on the graph with a cycle and a
\* self-loop, after expanding the state that lies on both.
C3_Witness ==
    ParDone /\ graph = CycleGraph /\ states = <<"A">> /\ expanded["B"] = 1

\* C4: whenever a worker process ends, on any exit path, it has decremented
\* wsize exactly once.
C4_WorkerExitDecrements ==
    [][\A w \in Workers :
         (wpc[w] # "idle" /\ wpc'[w] = "idle") => wdecs'[w] = 1]_vars

\* C5: the active-worker counter, and the number of live worker processes,
\* never exceed max_worker_count.
C5_WorkerCap ==
    /\ wsize <= max_worker_count
    /\ Cardinality({w \in Workers : wpc[w] # "idle"}) <= max_worker_count

\* C6: in iterative_search with distinct initial states, next() is invoked
\* on every state at most once per search call.
C6_IterExpandsOnce ==
    Distinct(states) => \A s \in States : expanded[s] <= 1

\* C7: in parallelized_search with distinct initial states, every state is
\* put on the backlog queue at most once and expanded by at most one worker.
C7_ParallelEnqueuesOnce ==
    Distinct(states) =>
        \A s \in States : enqueued[s] <= 1 /\ expanded[s] <= 1

\* C7 witness: on the diamond both parents of D were expanded, both copies
\* of D were harvested, and D was enqueued and expanded once.
C7_Witness ==
    /\ ParDone /\ graph = DiamondGraph /\ states = <<"A">>
    /\ expanded["B"] = 1 /\ expanded["C"] = 1 /\ results = << >>
    /\ enqueued["D"] = 1 /\ expanded["D"] = 1

\* C8: in iterative_search with max_depth = 0 and no initial state a
\* solution, no node is expanded and the returned solution set is empty.
C8_MaxDepthZeroEmpty ==
    (max_depth = <<0>> /\ \A i \in 1..Len(states) : states[i] \notin graph.sol)
        => /\ \A s \in States : expanded[s] = 0
           /\ IterDone => solutions = {}

\* C9: in iterative_search with max_depth = d >= 1, only nodes of depth < d
\* are expanded, and every solution found lies within d steps of an initial
\* state.
C9_DepthCeiling ==
    (max_depth # None /\ max_depth[1] >= 1) =>
        /\ ipc \in {"call", "for"} => current.depth < max_depth[1]
        /\ solutions \subseteq WithinSteps(Range(states), max_depth[1])

\* C9 witness: with max_depth = 1 on the scenario graph the search returned
\* C (one step from A) and neither expanded B nor returned D (two steps).
C9_Witness ==
    /\ IterDone /\ graph = ScenarioGraph /\ states = <<"A">>
    /\ max_depth = <<1>> /\ n_sols = None
    /\ solutions = {"C"} /\ expanded["B"] = 0

\* C10: in iterative_search with n_sols = k >= 1, when the search without
\* the ceiling finds more than k solutions, the returned set has exactly k
\* elements and all of them are solutions.
C10_SolutionCeiling ==
    (/\ IterDone
     /\ n_sols # None /\ n_sols[1] >= 1
     /\ Cardinality(iterative_search(states, dfs, max_depth, None))
          > n_sols[1])
        => /\ Cardinality(solutions) = n_sols[1]
           /\ solutions \subseteq graph.sol

\* C10 witness: with n_sols = 1 on the scenario graph (two solutions) the
\* search returned one solution and left work on the backlog.
C10_Witness ==
    /\ IterDone /\ graph = ScenarioGraph /\ states = <<"A">>
    /\ n_sols = <<1>> /\ max_depth = None
    /\ Cardinality(solutions) = 1 /\ backlog # << >>

\* C11: when an initial value is not a Backtrackable, parallelized_search
\* rejects the input before the search starts: nothing is put on the backlog,
\* nothing is expanded and no worker is spawned.
C11_InvalidInputRejected ==
    (\E i \in 1..Len(states) : states[i] \notin States) =>
        /\ backlog = << >>
        /\ \A v \in Values : enqueued[v] = 0 /\ expanded[v] = 0
        /\ \A w \in Workers : wpc[w] = "idle"

\* The states a search that classifies every successor expands: the initial
\* states, and every successor of an expanded state that is no solution.
RECURSIVE ExpandedClosure(_)
ExpandedClosure(E) ==
    LET more == E \cup {s \in Successors(E) : s \notin graph.sol}
    IN IF more = E THEN E ELSE ExpandedClosure(more)

\* The solution set of a run of parallelized_search in which every successor
\* put on the results queue is classified: it depends on the graph and the
\* initial states alone.
CompleteSolutions ==
    {s \in Successors(ExpandedClosure(Range(states))) :
        s \in graph.sol /\ s \notin Range(states)}

\* C12: every run of parallelized_search on the same graph and initial
\* states returns the same solution set, whatever the interleaving: the set
\* of the run that classifies every successor.
C12_ParallelDeterministic == ParDone => solutions = CompleteSolutions

\* Either strategy, iterative_search or parallelized_search, runs from its
\* initial state.
BothSpec == (ParInit \/ IterInit) /\ [][Next \/ IterNext]_vars

\* C13: in every reachable state of iterative_search and of
\* parallelized_search every element of the solution set satisfies
\* is_solution and is reachable from an initial state by one or more
\* expansion steps.
C13_SolutionsSoundReachable ==
    solutions \subseteq
        graph.sol \cap WithinSteps(Range(states), Cardinality(States))

C13_Witness ==
    /\ ParDone /\ graph = ScenarioGraph /\ states = <<"A">>
    /\ solutions = {"C", "D"}

\* The process taking the step holds the lock before and after the step.
StepHolds(lock) ==
    /\ lock' = lock
    /\ \/ cpc' # cpc /\ lock = {Coordinator}
       \/ \E w \in Workers : wpc'[w] # wpc[w] /\ lock = {w}

\* C14: every step that changes wsize is taken by a process that holds wlock,
\* and every step that changes qsize is taken by a process that holds qlock,
\* for the coordinator and for every worker.
C14_CountersUnderLock ==
    [][/\ wsize' # wsize => StepHolds(wlock)
       /\ qsize' # qsize => StepHolds(qlock)]_vars

C14_Witness ==
    \E w \in Workers :
        /\ wpc[w] = "rel_w" /\ wlock = {w} /\ wdecs[w] = 1
        /\ wcurrent[w] # NoNode /\ wsize = 1

\* C15: no process, coordinator or worker, ever holds wlock and qlock at
\* the same time, and as long as the search has not returned some process
\* can take a step.
C15_NoDoubleHoldNoDeadlock ==
    /\ wlock \cap qlock = {}
    /\ ParDone \/ ENABLED Next

C15_Witness ==
    /\ wlock = {Coordinator} /\ cpc = "spawn_inc"
    /\ \E w \in Workers : qlock = {w} /\ wpc[w] = "get"
    /\ \E w \in Workers : wpc[w] = "acq_q"

\* C16: a worker is one-shot. Only a worker that holds no item takes an item
\* off the backlog, one item, and it keeps that item until its process ends;
\* a worker that ends without crashing has decremented wsize exactly once, as
\* the last thing it did before releasing wlock; and a step of a worker
\* whose dequeue obtained nothing changes neither qsize nor the results queue.
C16_WorkerOneShot ==
    [][/\ Len(backlog') < Len(backlog) =>
            \E w \in Workers :
                /\ wcurrent[w] = NoNode /\ wcurrent'[w] = Head(backlog)
                /\ backlog' = Tail(backlog)
       /\ \A w \in Workers :
            /\ (wcurrent[w] # NoNode /\ wpc'[w] # "idle") =>
                    wcurrent'[w] = wcurrent[w]
            /\ (wpc[w] \notin {"idle", "expand"} /\ wpc'[w] = "idle") =>
                    wdecs'[w] = 1
            /\ wdecs'[w] <= 1
            /\ wdecs'[w] = 1 => wpc'[w] \in {"rel_w", "idle"}
            /\ (/\ wpc'[w] # wpc[w] /\ wpc[w] \notin {"idle", "acq_q"}
                /\ wcurrent[w] = NoNode /\ wcurrent'[w] = NoNode) =>
                    qsize' = qsize /\ results' = results]_vars

C16_Witness ==
    \E w \in Workers :
        /\ wpc[w] = "rel_w" /\ wcurrent[w] = NoNode /\ wdecs[w] = 1
        /\ qsize = 0 /\ results = << >>

\* C17: in iterative_search with dfs=False the depths of successively
\* popped nodes never decrease over the whole run: every node of a depth is
\* popped before any node of the next depth.
C17_BfsDepthOrder ==
    [][(~dfs /\ ipc = "while" /\ backlog # << >>) =>
            current'.depth >= current.depth]_vars

C17_Witness ==
    /\ IterDone /\ ~dfs /\ graph = DiamondGraph /\ states = <<"A">>
    /\ max_depth = None /\ current = Node(2, "D")
    /\ expanded["B"] = 1 /\ expanded["C"] = 1

\* iterative_search is one thread of control: it keeps running until it
\* returns or an exception leaves it.
FairIterSpec == IterInit /\ [][IterNext]_vars /\ WF_vars(IterNext)

\* C18: iterative_search, in either mode and with or without ceilings,
\* terminates on every finite graph, cycles and self-loops included: the
\* call ends, and it ends by returning whenever every next() returns.
C18_IterTerminates ==
    /\ <>(IterDone \/ ipc = "raised")
    /\ (graph.raises = {}) => <>IterDone

C18_Witness ==
    /\ IterDone /\ graph = CycleGraph /\ states = <<"A">>
    /\ n_sols = None /\ max_depth = None
    /\ expanded["A"] = 1 /\ expanded["B"] >= 1 /\ backlog = << >>

\* C19: in every reachable state of parallelized_search in which qlock is
\* not held, qsize equals the number of nodes in the backlog queue; qsize is
\* never negative.
C19_QsizeCountsBacklog ==
    /\ qlock = {} => qsize = Len(backlog)
    /\ qsize >= 0

C19_Witness ==
    /\ qlock = {} /\ qsize = 1 /\ Len(backlog) = 1
    /\ \E w \in Workers : wpc[w] = "expand"
    /\ enqueued["D"] = 1

\* The number of next() calls made so far on the states of S that raised.
RECURSIVE RaisedCalls(_)
RaisedCalls(S) ==
    IF S = {} THEN 0
    ELSE LET s == CHOOSE x \in S : TRUE
         IN (IF Raises(s) THEN expanded[s] ELSE 0) + RaisedCalls(S \ {s})

\* The spawned workers that have not performed their final decrement: the
\* worker processes that are running and have not reached line 38 yet, and
\* the ones that died at line 33 and never will.
Undecremented ==
    Cardinality({w \in Workers : wpc[w] \notin {"idle", "rel_w"}})
        + RaisedCalls(Values)

\* C20: in every reachable state of parallelized_search in which wlock is
\* not held, wsize equals the number of spawned workers that have not yet
\* performed their final decrement; wsize is never negative.
C20_WsizeCountsWorkers ==
    /\ wlock = {} => wsize = Undecremented
    /\ wsize >= 0

C20_Witness ==
    /\ wlock = {} /\ wsize = 2
    /\ \E w \in Workers : wpc[w] = "expand"
    /\ \E w \in Workers : wpc[w] = "acq_w" /\ wcurrent[w] = NoNode

=============================================================================
